---- MODULE Spec2Model ----
(***************************************************************************)
(* NullCleaner (src/forcast_data/cleaned_nulls.py): load a CSV, replace    *)
(* every missing value by 0, keep the cleaned DataFrame, write it to       *)
(* 'updated_nulls.csv'; save_cleaned_data writes it again to a chosen path.*)
(*                                                                         *)
(* A CSV file is a sequence of records, a record a sequence of fields, a   *)
(* field a sequence of one-character strings.  The delimiter/quoting layer *)
(* of the format is below this model; the type inference of read_csv, the  *)
(* fill of fillna(0) and the number formatting of to_csv are computed.     *)
(***************************************************************************)
EXTENDS Integers, Sequences, FiniteSets, TLC

\* ------------------------------------------------------------------ bounds
MaxRows == 2
FracDigits == 2

\* ------------------------------------------------------------ text of cells
DigitChars == <<"0", "1", "2", "3", "4", "5", "6", "7", "8", "9">>

Digits == {DigitChars[k] : k \in 1..10}

DigitVal(c) == (CHOOSE k \in 1..10 : DigitChars[k] = c) - 1

RECURSIVE Pow10(_)
Pow10(e) == IF e = 0 THEN 1 ELSE 10 * Pow10(e - 1)

\* a float64 value is kept as the integer value * Scale
Scale == Pow10(FracDigits)

RECURSIVE IntVal(_)
IntVal(s) ==
    IF s = <<>> THEN 0
    ELSE 10 * IntVal(SubSeq(s, 1, Len(s) - 1)) + DigitVal(s[Len(s)])

RECURSIVE IntStr(_)
IntStr(n) ==
    IF n < 10 THEN <<DigitChars[n + 1]>>
    ELSE IntStr(n \div 10) \o <<DigitChars[(n % 10) + 1]>>

\* the fields read_csv takes for a missing value (its default na_values; the
\* empty field and NA stand for the list)
NaValues == {<<>>, <<"N", "A">>}

IsNA(s) == s \in NaValues

IsIntLit(s) == Len(s) > 0 /\ \A k \in 1..Len(s) : s[k] \in Digits

DotAt(s) == {k \in 1..Len(s) : s[k] = "."}

IsFloatLit(s) ==
    /\ Len(s) > 1
    /\ Cardinality(DotAt(s)) = 1
    /\ \A k \in 1..Len(s) : s[k] \in Digits \cup {"."}

FloatVal(s) ==
    IF IsIntLit(s) THEN IntVal(s) * Scale
    ELSE LET k  == CHOOSE d \in DotAt(s) : TRUE
             ip == SubSeq(s, 1, k - 1)
             fp == SubSeq(s, k + 1, Len(s))
         IN  IntVal(ip) * Scale + IntVal(fp) * Pow10(FracDigits - Len(fp))

RECURSIVE FracStr(_, _)
FracStr(f, w) ==
    IF w = 0 THEN <<>>
    ELSE FracStr(f \div 10, w - 1) \o <<DigitChars[(f % 10) + 1]>>

RECURSIVE StripZeros(_)
StripZeros(s) ==
    IF Len(s) > 1 /\ s[Len(s)] = "0" THEN StripZeros(SubSeq(s, 1, Len(s) - 1))
    ELSE s

\* repr of a float64: shortest text that reads back as the same value
FloatStrTruncated(m) == IntStr(m \div Scale)

FloatStr(m) ==
    IntStr(m \div Scale) \o <<".">> \o StripZeros(FracStr(m % Scale, FracDigits))

\* ------------------------------------------------------------------- cells
IntCell(n)   == [t |-> "int",   n |-> n, s |-> <<>>]
FloatCell(m) == [t |-> "float", n |-> m, s |-> <<>>]
StrCell(s)   == [t |-> "str",   n |-> 0, s |-> s]
NaN          == [t |-> "nan",   n |-> 0, s |-> <<>>]

IsNumber(c) == c.t \in {"int", "float"}

\* the number a Number cell holds, on the float scale
NumVal(c) == IF c.t = "int" THEN c.n * Scale ELSE c.n

FormatCell(c) ==
    CASE c.t = "int"   -> IntStr(c.n)
      [] c.t = "float" -> FloatStr(c.n)
      [] c.t = "str"   -> c.s
      [] OTHER         -> <<>>

\* --------------------------------------------------------------- DataFrame
None == [isNone |-> TRUE, columns |-> <<>>, dtypes |-> <<>>, data |-> <<>>]

Frame(cols, dts, rows) ==
    [isNone |-> FALSE, columns |-> cols, dtypes |-> dts, data |-> rows]

NRows(d) == Len(d.data)
NCols(d) == Len(d.columns)

\* ------------------------------------------------------------------- files
NoFile == [exists |-> FALSE, lines |-> <<>>]

File(ls) == [exists |-> TRUE, lines |-> ls]

\* read_csv: dtype of a column from its fields
InferDtype(col) ==
    IF Len(col) = 0 THEN "object"
    ELSE IF \A k \in 1..Len(col) : IsIntLit(col[k]) THEN "int64"
    ELSE IF \A k \in 1..Len(col) : IsNA(col[k]) \/ IsIntLit(col[k]) \/ IsFloatLit(col[k])
         THEN "float64"
    ELSE "object"

ParseCell(dt, s) ==
    IF IsNA(s) THEN NaN
    ELSE CASE dt = "int64"   -> IntCell(IntVal(s))
           [] dt = "float64" -> FloatCell(FloatVal(s))
           [] OTHER          -> StrCell(s)

\* read_csv: a repeated header name gets the suffix .1, .2, ...
MangleDupeCols(h) ==
    [j \in 1..Len(h) |->
        LET k == Cardinality({i \in 1..(j - 1) : h[i] = h[j]})
        IN  IF k = 0 THEN h[j] ELSE h[j] \o <<".">> \o IntStr(k)]

\* read_csv skips blank lines (skip_blank_lines=True): a record that is one
\* empty field is a blank line of the file
IsBlankLine(r) == r = << <<>> >>

\* pd.read_csv(path): the frame, or the error it raises
ReadCsv(f) ==
    IF ~f.exists THEN [err |-> "FileNotFoundError", df |-> None]
    ELSE LET ls == SelectSeq(f.lines, LAMBDA r : ~IsBlankLine(r))
         IN  IF ls = <<>> THEN [err |-> "EmptyDataError", df |-> None]
             ELSE LET h      == ls[1]
                      nr     == Len(ls) - 1
                      raw(j) == [i \in 1..nr |-> ls[i + 1][j]]
                      dts    == [j \in 1..Len(h) |-> InferDtype(raw(j))]
                  IN  [err |-> "none",
                       df  |-> Frame(MangleDupeCols(h), dts,
                                [i \in 1..nr |->
                                    [j \in 1..Len(h) |-> ParseCell(dts[j], ls[i + 1][j])]])]

\* df.fillna(0): 0 in the column's dtype where the cell is missing
FillValue(dt) == IF dt = "float64" THEN FloatCell(0) ELSE IntCell(0)

FillnaNumericOnly(d) ==
    Frame(d.columns, d.dtypes,
        [i \in 1..NRows(d) |->
            [j \in 1..NCols(d) |->
                IF d.data[i][j] = NaN /\ d.dtypes[j] = "float64"
                THEN FillValue(d.dtypes[j]) ELSE d.data[i][j]]])

Dropna(d) ==
    Frame(d.columns, d.dtypes,
        SelectSeq(d.data, LAMBDA r : \A j \in 1..Len(r) : r[j] # NaN))

Fillna(d) ==
    Frame(d.columns, d.dtypes,
        [i \in 1..NRows(d) |->
            [j \in 1..NCols(d) |->
                IF d.data[i][j] = NaN THEN FillValue(d.dtypes[j]) ELSE d.data[i][j]]])

\* df.to_csv(path, index=False): header, then one record per row
ToCsvWithIndex(d) ==
    File(<< (<< <<>> >> \o d.columns) >> \o
         [i \in 1..NRows(d) |->
            <<IntStr(i - 1)>> \o [j \in 1..NCols(d) |-> FormatCell(d.data[i][j])]])

ToCsvTruncated(d) ==
    File(<<d.columns>> \o
         [i \in 1..NRows(d) |->
            [j \in 1..NCols(d) |->
                IF d.data[i][j].t = "float" THEN FloatStrTruncated(d.data[i][j].n)
                ELSE FormatCell(d.data[i][j])]])

ToCsv(d) ==
    File(<<d.columns>> \o
         [i \in 1..NRows(d) |-> [j \in 1..NCols(d) |-> FormatCell(d.data[i][j])]])

\* ------------------------------------------------------------ input space
Tokens == {<<>>, <<"1">>, <<"1", ".", "5", "0">>, <<"x">>}

Headers == {<< <<"a">> >>, << <<"a">>, <<"b">> >>}

TablesOf(h) ==
    UNION {[1..nr -> [1..Len(h) -> Tokens]] : nr \in 0..MaxRows}

SourceFiles == UNION {{File(<<h>> \o rows) : rows \in TablesOf(h)} : h \in Headers}

\* ------------------------------------------------------------------ state
Inst == {1, 2}

SourcePath    == "dummy_filter_format.csv"
DefaultOutput == "updated_nulls.csv"
OtherPath     == "cleaned_copy.csv"

Paths == {SourcePath, DefaultOutput, OtherPath}

\* the paths the cleaners are asked to write
OutputPaths == {DefaultOutput, OtherPath}

VARIABLES
    fs,          \* the file at each path
    readonly,    \* the paths a write to which fails (PermissionError)
    file_path,   \* self.file_path of each instance
    cleaned_df,  \* self.cleaned_df of each instance
    df,          \* the local df of a running clean_nulls
    pc,          \* where each instance's running call stands
    op,          \* the call an instance runs: its name and output_path
    out,         \* what the running call has printed
    pre,         \* cleaned_df and fs when the running call was entered
    had_success, \* the instance has had a clean_nulls that printed success
    last_write   \* who wrote DefaultOutput last, and the frame written

vars == <<fs, readonly, file_path, cleaned_df, df, pc, op, out, pre,
          had_success, last_write>>

NoOp == [name |-> "none", output_path |-> ""]

NoSnapshot == [cleaned_df |-> [i \in Inst |-> None], fs |-> [p \in Paths |-> NoFile]]

\* __init__: file_path kept, no cleaned frame yet
NullCleanerInit(path) == [file_path |-> path, cleaned_df |-> None]

\* the state once both cleaners are constructed, over the files src and dflt
InitWith(src, dflt, fp) ==
    /\ fs = [p \in Paths |->
                IF p = SourcePath THEN src ELSE IF p = DefaultOutput THEN dflt ELSE NoFile]
    /\ readonly = {}
    /\ file_path = [i \in Inst |-> NullCleanerInit(fp[i]).file_path]
    /\ cleaned_df = [i \in Inst |-> NullCleanerInit(fp[i]).cleaned_df]
    /\ df = [i \in Inst |-> None]
    /\ pc = [i \in Inst |-> "idle"]
    /\ op = [i \in Inst |-> NoOp]
    /\ out = [i \in Inst |-> <<>>]
    /\ pre = NoSnapshot
    /\ had_success = [i \in Inst |-> FALSE]
    /\ last_write = [by |-> 0, frame |-> None]

\* a file some earlier program left at the default output path
StaleFile == File(<< << <<"o">> >>, << <<"9">> >> >>)

\* every source table of the input space, an older file at the default
\* output path; the second cleaner is pointed at the first one's output
Init ==
    \E src \in SourceFiles :
        InitWith(src, StaleFile, [i \in Inst |-> IF i = 1 THEN SourcePath ELSE DefaultOutput])

\* few source tables, every way of pointing the cleaners at the paths
EnvSourceFiles ==
    {File(<< << <<"a">>, <<"a">> >>, << f, <<"1">> >>, << g, <<"1", ".", "5", "0">> >> >>) :
        f \in {<<"x">>, <<"1">>}, g \in {<<"N", "A">>, <<>>}}

InitEnv ==
    \E src \in EnvSourceFiles \cup {NoFile, File(<<>>)}, dflt \in {NoFile, StaleFile},
       fp2 \in Paths :
        InitWith(src, dflt, [i \in Inst |-> IF i = 1 THEN SourcePath ELSE fp2])

\* two cleaners of the same source, or the second one reading the default
\* output path the first one writes
ConcSourceFiles ==
    {File(<< << <<"a">> >>, << f >> >>) : f \in {<<>>, <<"1">>, <<"x">>}}

InitConc ==
    \E src \in ConcSourceFiles, dflt \in {NoFile, StaleFile},
       fp2 \in {SourcePath, DefaultOutput} :
        InitWith(src, dflt, [i \in Inst |-> IF i = 1 THEN SourcePath ELSE fp2])

\* ---------------------------------------------------------------- helpers
\* except Exception: every error read_csv and to_csv raise is an Exception
CatchesPermissionErrorOnly(e) == e \in {"PermissionError"}

Catches(e) == e \in {"FileNotFoundError", "EmptyDataError", "PermissionError"}

\* self.cleaned_df = ... : an instance attribute
SetCleanedShared(c, i, d) == [j \in Inst |-> d]

SetCleaned(c, i, d) == [c EXCEPT ![i] = d]

\* the except branch of clean_nulls only prints
OnCleanErrorReset(c, i) == [c EXCEPT ![i] = None]

OnCleanError(c, i) == c

\* to_csv opens the path for writing: the file is replaced
WriteFileAppend(f, p, content) ==
    [f EXCEPT ![p] = File(f[p].lines \o content.lines)]

WriteFile(f, p, content) == [f EXCEPT ![p] = content]

\* the path save_cleaned_data hands to to_csv: its output_path argument
SaveTargetDefault(p) == DefaultOutput

SaveTarget(p) == p

MsgReplaced   == <<"Null values successfully replaced with 0.", "">>
MsgSaved(p)   == <<"Cleaned data saved to", p>>
MsgCleanErr(e) == <<"Error cleaning nulls:", e>>
MsgSaveErr(e) == <<"Error saving file:", e>>
MsgRunFirst   == <<"Please run clean_nulls() before saving.", "">>

NoteWrite(p, i, d) ==
    IF p = DefaultOutput THEN [by |-> i, frame |-> d] ELSE last_write

\* what a call entered by i finds; kept only while no other call is running
Snapshot(i) ==
    IF \A j \in Inst \ {i} : pc[j] = "idle"
    THEN [cleaned_df |-> cleaned_df, fs |-> fs]
    ELSE NoSnapshot

\* ---------------------------------------------------------------- actions
\* cleaner.clean_nulls() is entered
CallCleanNulls(i) ==
    /\ pc[i] = "idle"
    /\ pc' = [pc EXCEPT ![i] = "c91"]
    /\ op' = [op EXCEPT ![i] = [name |-> "clean_nulls", output_path |-> DefaultOutput]]
    /\ out' = [out EXCEPT ![i] = <<>>]
    /\ pre' = Snapshot(i)
    /\ UNCHANGED <<fs, readonly, file_path, cleaned_df, df, had_success, last_write>>

\* the except branch of clean_nulls (or the error leaving the call)
ExceptClean(i, e) ==
    /\ IF Catches(e)
       THEN /\ out' = [out EXCEPT ![i] = Append(@, MsgCleanErr(e))]
            /\ pc' = [pc EXCEPT ![i] = "done"]
       ELSE /\ out' = out
            /\ pc' = [pc EXCEPT ![i] = "raised"]
    /\ cleaned_df' = OnCleanError(cleaned_df, i)

\* line 91: df = pd.read_csv(self.file_path)
Line91(i) ==
    /\ pc[i] = "c91"
    /\ LET r == ReadCsv(fs[file_path[i]])
       IN  IF r.err = "none"
           THEN /\ df' = [df EXCEPT ![i] = r.df]
                /\ pc' = [pc EXCEPT ![i] = "c92"]
                /\ UNCHANGED <<out, cleaned_df>>
           ELSE /\ ExceptClean(i, r.err)
                /\ UNCHANGED df
    /\ UNCHANGED <<fs, readonly, file_path, op, pre, had_success, last_write>>

\* line 92: self.cleaned_df = df.fillna(0)
Line92(i) ==
    /\ pc[i] = "c92"
    /\ cleaned_df' = SetCleaned(cleaned_df, i, Fillna(df[i]))
    /\ pc' = [pc EXCEPT ![i] = "c93"]
    /\ UNCHANGED <<fs, readonly, file_path, df, op, out, pre, had_success, last_write>>

\* lines 93-95: self.cleaned_df.to_csv("updated_nulls.csv", index=False), prints
Line93(i) ==
    /\ pc[i] = "c93"
    /\ IF DefaultOutput \notin readonly
       THEN /\ fs' = WriteFile(fs, DefaultOutput, ToCsv(cleaned_df[i]))
            /\ last_write' = NoteWrite(DefaultOutput, i, cleaned_df[i])
            /\ out' = [out EXCEPT ![i] = @ \o <<MsgReplaced, MsgSaved(DefaultOutput)>>]
            /\ pc' = [pc EXCEPT ![i] = "done"]
            /\ had_success' = [had_success EXCEPT ![i] = TRUE]
            /\ UNCHANGED cleaned_df
       ELSE /\ ExceptClean(i, "PermissionError")
            /\ UNCHANGED <<fs, last_write, had_success>>
    /\ UNCHANGED <<readonly, file_path, df, op, pre>>

\* cleaner.save_cleaned_data(p) is entered
CallSaveCleanedData(i, p) ==
    /\ pc[i] = "idle"
    /\ pc' = [pc EXCEPT ![i] = "s108"]
    /\ op' = [op EXCEPT ![i] = [name |-> "save_cleaned_data", output_path |-> p]]
    /\ out' = [out EXCEPT ![i] = <<>>]
    /\ pre' = Snapshot(i)
    /\ UNCHANGED <<fs, readonly, file_path, cleaned_df, df, had_success, last_write>>

\* line 108: if self.cleaned_df is not None ... else (line 115) print
Line108(i) ==
    /\ pc[i] = "s108"
    /\ IF ~cleaned_df[i].isNone
       THEN /\ pc' = [pc EXCEPT ![i] = "s110"]
            /\ out' = out
       ELSE /\ pc' = [pc EXCEPT ![i] = "done"]
            /\ out' = [out EXCEPT ![i] = Append(@, MsgRunFirst)]
    /\ UNCHANGED <<fs, readonly, file_path, cleaned_df, df, op, pre, had_success, last_write>>

\* lines 110-113: self.cleaned_df.to_csv(output_path, index=False), print
Line110(i) ==
    /\ pc[i] = "s110"
    /\ LET p == SaveTarget(op[i].output_path)
       IN  IF p \notin readonly
           THEN /\ fs' = WriteFile(fs, p, ToCsv(cleaned_df[i]))
                /\ last_write' = NoteWrite(p, i, cleaned_df[i])
                /\ out' = [out EXCEPT ![i] = Append(@, MsgSaved(p))]
                /\ pc' = [pc EXCEPT ![i] = "done"]
           ELSE /\ IF Catches("PermissionError")
                   THEN /\ out' = [out EXCEPT ![i] = Append(@, MsgSaveErr("PermissionError"))]
                        /\ pc' = [pc EXCEPT ![i] = "done"]
                   ELSE /\ out' = out
                        /\ pc' = [pc EXCEPT ![i] = "raised"]
                /\ UNCHANGED <<fs, last_write>>
    /\ UNCHANGED <<readonly, file_path, cleaned_df, df, op, pre, had_success>>

\* the call returns to its caller (or its error reaches the caller)
Return(i) ==
    /\ pc[i] \in {"done", "raised"}
    /\ pc' = [pc EXCEPT ![i] = "idle"]
    /\ op' = [op EXCEPT ![i] = NoOp]
    /\ out' = [out EXCEPT ![i] = <<>>]
    /\ df' = [df EXCEPT ![i] = None]
    /\ pre' = NoSnapshot
    /\ UNCHANGED <<fs, readonly, file_path, cleaned_df, had_success, last_write>>

\* the world outside the cleaner: a file is removed
RemoveFile(p) ==
    /\ fs[p].exists
    /\ fs' = [fs EXCEPT ![p] = NoFile]
    /\ last_write' = IF p = DefaultOutput THEN [by |-> 0, frame |-> None] ELSE last_write
    /\ UNCHANGED <<readonly, file_path, cleaned_df, df, pc, op, out, pre, had_success>>

\* the world outside the cleaner: a path is made read-only, or writable again
Chmod(p) ==
    /\ readonly' = IF p \in readonly THEN readonly \ {p} ELSE readonly \cup {p}
    /\ UNCHANGED <<fs, file_path, cleaned_df, df, pc, op, out, pre, had_success, last_write>>

Quiet == \A j \in Inst : pc[j] = "idle"

Step(i) == Line91(i) \/ Line92(i) \/ Line93(i) \/ Line108(i) \/ Line110(i) \/ Return(i)

\* single-threaded use: a call is entered, and the world acts, only when no
\* call is running
SeqCleanNulls(i) == Quiet /\ CallCleanNulls(i)

SeqSaveCleanedData(i, p) == Quiet /\ CallSaveCleanedData(i, p)

SeqRemoveFile(p) == Quiet /\ RemoveFile(p)

SeqChmod(p) == Quiet /\ Chmod(p)

\* single-threaded use, nothing else touching the files
Next ==
    \/ \E i \in Inst : SeqCleanNulls(i)
    \/ \E i \in Inst : \E p \in OutputPaths : SeqSaveCleanedData(i, p)
    \/ \E i \in Inst : Step(i)

Spec == Init /\ [][Next]_vars

\* single-threaded use in a world where files go and change permission
\* between calls
NextEnv ==
    \/ \E i \in Inst : SeqCleanNulls(i)
    \/ \E i \in Inst : \E p \in Paths : SeqSaveCleanedData(i, p)
    \/ \E i \in Inst : Step(i)
    \/ \E p \in Paths : SeqRemoveFile(p)
    \/ \E p \in OutputPaths : SeqChmod(p)

SpecEnv == InitEnv /\ [][NextEnv]_vars

\* two instances whose calls interleave line by line, around the shared
\* default output file
NextConc ==
    \/ \E i \in Inst : CallCleanNulls(i) \/ CallSaveCleanedData(i, DefaultOutput)
    \/ \E i \in Inst : Step(i)
    \/ RemoveFile(DefaultOutput) \/ Chmod(DefaultOutput)

SpecConc == InitConc /\ [][NextConc]_vars

\* ------------------------------------------------------------- properties
Finished(i, name) == pc[i] \in {"done", "raised"} /\ op[i].name = name

\* clean_nulls printed both of its success messages
CleanSucceeded(i) ==
    /\ pc[i] = "done" /\ op[i].name = "clean_nulls"
    /\ out[i] = <<MsgReplaced, MsgSaved(DefaultOutput)>>

\* save_cleaned_data printed its success message
SaveSucceeded(i) ==
    /\ pc[i] = "done" /\ op[i].name = "save_cleaned_data"
    /\ out[i] = <<MsgSaved(op[i].output_path)>>

\* the source table T of the call instance i runs: what the read facility
\* returns for the file that was at file_path when the call was entered
SourceTable(i) == ReadCsv(pre.fs[file_path[i]]).df

\* the file f holds exactly the frame d: its header is d's column names, it
\* has one record per row and one field per column, each the cell's text
FileHolds(f, d) ==
    /\ f.exists
    /\ Len(f.lines) = 1 + NRows(d)
    /\ f.lines[1] = d.columns
    /\ \A r \in 1..NRows(d) :
          /\ Len(f.lines[r + 1]) = NCols(d)
          /\ \A c \in 1..NCols(d) : f.lines[r + 1][c] = FormatCell(d.data[r][c])

SameShape(a, b) ==
    /\ NRows(a) = NRows(b)
    /\ NCols(a) = NCols(b)
    /\ \A r \in 1..NRows(a) : Len(a.data[r]) = NCols(a) /\ Len(b.data[r]) = NCols(b)

\* C1: after a successful clean_nulls the owned table has no Absent cell,
\* every cell Absent in the source table is the Number 0, and every other
\* cell is the source table's cell, value and type.
C1_NullsBecomeZero ==
    \A i \in Inst :
        CleanSucceeded(i) =>
            LET T == SourceTable(i)
                C == cleaned_df[i]
            IN  /\ ~C.isNone
                /\ SameShape(C, T)
                /\ \A r \in 1..NRows(T) : \A c \in 1..NCols(T) :
                      /\ C.data[r][c].t # "nan"
                      /\ T.data[r][c].t = "nan" =>
                            IsNumber(C.data[r][c]) /\ NumVal(C.data[r][c]) = 0
                      /\ T.data[r][c].t # "nan" => C.data[r][c] = T.data[r][c]

\* a clean of a table with an Absent cell in a Text column beside a Number
C1_Witness ==
    \E i \in Inst :
        /\ CleanSucceeded(i)
        /\ LET T == SourceTable(i)
           IN  /\ NRows(T) = 2 /\ NCols(T) = 2
               /\ T.data[1][1].t = "str" /\ T.data[2][1].t = "nan"
               /\ T.data[1][2].t = "nan" /\ T.data[2][2].t = "float"

\* C6: the owned table after a successful clean_nulls has the source table's
\* column names in the source table's order, and its number of rows.
C6_SameColumnsAndRowCount ==
    \A i \in Inst :
        CleanSucceeded(i) =>
            /\ cleaned_df[i].columns = SourceTable(i).columns
            /\ NRows(cleaned_df[i]) = NRows(SourceTable(i))

\* a clean of a two-column, two-row table with an Absent cell in a row
C6_Witness ==
    \E i \in Inst :
        /\ CleanSucceeded(i)
        /\ NCols(SourceTable(i)) = 2 /\ NRows(SourceTable(i)) = 2
        /\ SourceTable(i).columns[1] # SourceTable(i).columns[2]
        /\ SourceTable(i).data[2][1] = NaN

\* C5: after a successful clean_nulls the file at 'updated_nulls.csv' holds
\* exactly the owned table (header, column order, rows, no index column),
\* whatever it held before, and no other file has changed.
C5_DefaultOutputHoldsOwnedTable ==
    \A i \in Inst :
        CleanSucceeded(i) =>
            /\ FileHolds(fs[DefaultOutput], cleaned_df[i])
            /\ \A p \in Paths \ {DefaultOutput} : fs[p] = pre.fs[p]

\* a clean that replaced a different file at the default output path
C5_Witness ==
    \E i \in Inst :
        /\ CleanSucceeded(i)
        /\ pre.fs[DefaultOutput].exists
        /\ pre.fs[DefaultOutput] # fs[DefaultOutput]
        /\ NRows(cleaned_df[i]) = 2 /\ NCols(cleaned_df[i]) = 2

\* the file instance i has just written its owned table to
Written(i) ==
    IF op[i].name = "clean_nulls" THEN fs[DefaultOutput] ELSE fs[op[i].output_path]

WroteOwnedTable(i) == CleanSucceeded(i) \/ SaveSucceeded(i)

\* the one difference a reload makes: the Number 0 that replaced an Absent
\* cell of a column holding Text comes back as the Text "0"
ZeroReadAsText(c, re, dt) ==
    /\ dt = "object"
    /\ c = IntCell(0)
    /\ re = StrCell(<<"0">>)

\* C8 as claimed: the file written by a successful clean_nulls or
\* save_cleaned_data, read again by read_csv, is a table equal to the owned
\* table in header, column order, row order and values, so that cleaning the
\* output yields the owned table again.
C8_ReloadEqualsOwnedTable ==
    \A i \in Inst :
        WroteOwnedTable(i) =>
            LET re == ReadCsv(Written(i))
            IN  /\ re.err = "none"
                /\ re.df.columns = cleaned_df[i].columns
                /\ re.df.data = cleaned_df[i].data
                /\ Fillna(re.df).data = cleaned_df[i].data

\* C8 amended: the reloaded table has the owned table's header, column
\* order, row count and row order; each cell has the owned cell's text and
\* is the owned cell, value and type, except that a Number 0 filled into a
\* column holding Text reloads as Text "0"; cleaning the output file yields
\* that reloaded table and writes the identical file again; and a second
\* cleaner run on the first one's output ends that way.
C8_ReloadEqualsModuloTextZero ==
    \A i \in Inst :
        /\ WroteOwnedTable(i) =>
            LET C  == cleaned_df[i]
                re == ReadCsv(Written(i))
            IN  /\ re.err = "none"
                /\ re.df.columns = C.columns
                /\ SameShape(re.df, C)
                /\ \A r \in 1..NRows(C) : \A c \in 1..NCols(C) :
                      /\ FormatCell(re.df.data[r][c]) = FormatCell(C.data[r][c])
                      /\ \/ re.df.data[r][c] = C.data[r][c]
                         \/ ZeroReadAsText(C.data[r][c], re.df.data[r][c], C.dtypes[c])
                /\ Fillna(re.df) = re.df
                /\ ToCsv(Fillna(re.df)) = Written(i)
        /\ \A k \in Inst \ {i} :
              ( /\ CleanSucceeded(i)
                /\ file_path[i] = DefaultOutput
                /\ ~cleaned_df[k].isNone
                /\ pre.fs[DefaultOutput] = ToCsv(cleaned_df[k]) )
              => /\ fs[DefaultOutput] = pre.fs[DefaultOutput]
                 /\ cleaned_df[i].columns = cleaned_df[k].columns
                 /\ SameShape(cleaned_df[i], cleaned_df[k])
                 /\ \A r \in 1..NRows(cleaned_df[k]) : \A c \in 1..NCols(cleaned_df[k]) :
                       \/ cleaned_df[i].data[r][c] = cleaned_df[k].data[r][c]
                       \/ ZeroReadAsText(cleaned_df[k].data[r][c], cleaned_df[i].data[r][c],
                                         cleaned_df[k].dtypes[c])

\* the second cleaner has cleaned the first one's output, whose table holds
\* a float and, in a Text column, a filled-in 0
C8_Witness ==
    /\ CleanSucceeded(2)
    /\ file_path[2] = DefaultOutput
    /\ ~cleaned_df[1].isNone
    /\ pre.fs[DefaultOutput] = ToCsv(cleaned_df[1])
    /\ cleaned_df[2] # cleaned_df[1]
    /\ \E r \in 1..NRows(cleaned_df[1]) : \E c \in 1..NCols(cleaned_df[1]) :
          cleaned_df[1].data[r][c] = FloatCell((3 * Scale) \div 2)

\* clean_nulls ended without its success messages
CleanFailed(i) == Finished(i, "clean_nulls") /\ ~CleanSucceeded(i)

\* C2: a clean_nulls that fails on an instance holding no table, at the load
\* or at the write of the default output, leaves the instance with no table.
C2_FailedCleanLeavesNoTable ==
    \A i \in Inst :
        (CleanFailed(i) /\ pre.cleaned_df[i].isNone) => cleaned_df[i].isNone

C4_SaveBeforeCleanWritesNothing ==
    \A i \in Inst :
        (Finished(i, "save_cleaned_data") /\ ~had_success[i]) =>
            /\ pc[i] = "done"
            /\ out[i] = <<MsgRunFirst>>
            /\ cleaned_df[i].isNone
            /\ fs = pre.fs

\* C7: save_cleaned_data(p) on an instance holding a table leaves that table
\* as it was; it either writes, and then the file at p holds the owned table
\* and no other file has changed, or prints the write error without raising.
C7_SaveKeepsStateAndWritesTarget ==
    \A i \in Inst :
        (Finished(i, "save_cleaned_data") /\ ~pre.cleaned_df[i].isNone) =>
            LET p == op[i].output_path
            IN  /\ pc[i] = "done"
                /\ cleaned_df[i] = pre.cleaned_df[i]
                /\ \/ /\ out[i] = <<MsgSaved(p)>>
                      /\ FileHolds(fs[p], cleaned_df[i])
                      /\ \A q \in Paths \ {p} : fs[q] = pre.fs[q]
                   \/ /\ out[i] = <<MsgSaveErr("PermissionError")>>
                      /\ ~cleaned_df[i].isNone

\* a save to another path than the default one has written a new file
C7_Witness ==
    \E i \in Inst :
        /\ SaveSucceeded(i)
        /\ op[i].output_path = OtherPath
        /\ ~pre.fs[OtherPath].exists
        /\ NRows(cleaned_df[i]) = 2

\* C10: a step of clean_nulls or save_cleaned_data never takes an owned
\* table away, and a clean_nulls that fails at the load leaves the owned
\* table and every file as they were when the call was entered.
C10_OwnedTableNeverLost ==
    [][\A i \in Inst :
          /\ ~cleaned_df[i].isNone => ~cleaned_df'[i].isNone
          /\ (pc[i] = "c91" /\ pc'[i] \in {"done", "raised"}) =>
                /\ cleaned_df'[i] = pre.cleaned_df[i]
                /\ fs' = pre.fs]_vars

\* a clean_nulls failed at the load on an instance that holds a table
C10_Witness ==
    \E i \in Inst :
        /\ CleanFailed(i)
        /\ out[i] = <<MsgCleanErr("FileNotFoundError")>>
        /\ ~cleaned_df[i].isNone
        /\ had_success[i]

\* C9: a step of one instance never changes the other's owned table, and
\* whenever no call is running the default output file holds, in full, the
\* table of whichever instance wrote it last.
C9_NoSharedStateLastWriterWins ==
    /\ [][\A i \in Inst : pc'[i] = pc[i] => cleaned_df'[i] = cleaned_df[i]]_vars
    /\ []((\A j \in Inst : pc[j] \in {"idle", "done"}) /\ last_write.by \in Inst
            => FileHolds(fs[DefaultOutput], last_write.frame))

\* both calls have ended, and the file is the last writer's table, not the
\* other instance's
C9_Witness ==
    \E i \in Inst : \E k \in Inst \ {i} :
        /\ pc[i] = "done" /\ pc[k] = "done"
        /\ last_write.by = i
        /\ last_write.frame = cleaned_df[i]
        /\ ~cleaned_df[k].isNone
        /\ ~FileHolds(fs[DefaultOutput], cleaned_df[k])

====
